---- MODULE Spec2Model ----
(***************************************************************************)
(* Model of the knovator_task deployment: the GitLab CI/CD release         *)
(* pipeline (stages build_and_push, deploy), the nginx edge router         *)
(* (location / and location /api) and the Express backend (GET /).         *)
(*                                                                         *)
(* The repository documents two revisions of the pipeline definition: the  *)
(* one in README.md and the one in the second README-like file             *)
(* (unnamed/part_000).  `config` says which one is installed.              *)
(***************************************************************************)
EXTENDS Naturals, Sequences, FiniteSets

\* ------------------------------------------------------------------ bounds
MaxPipelines == 2   \* pipelines (pushes) in one behaviour
MaxRetries == 1     \* operator re-runs of failed jobs in one behaviour
MaxPathLen == 6     \* characters of a request path

\* The edge router's and the backend's state: the request being served.
VARIABLES phase, req, fwd, resp, backendUp

rvars == <<phase, req, fwd, resp, backendUp>>

\* ============================================================= PIPELINE ==

\* config: the installed pipeline definition; per pipeline: its branch, the
\* status of its jobs, each job's next command, the commands its deploy job
\* ran (with their exit), whether an operator played its deploy job;
\* retries: the operator's re-runs; registry: the pipeline that pushed each
\* image's :latest; host: what the target host pulled and runs.
VARIABLES config, branch, status, pc, ran, played, retries, registry, host

pvars == <<config, branch, status, pc, ran, played, retries, registry, host>>

Configs == {"README", "part_000"}
Branches == {"main", "feature"}
Pipelines == 1..MaxPipelines

\* stages: - build_and_push - deploy
stages == <<"build_and_push", "deploy">>

Components == {"frontend", "backend"}
Jobs == Components \cup {"deploy"}

\* stage: of each job
StageOf(j) == IF j = "deploy" THEN "deploy" ELSE "build_and_push"

\* (mutant) the deploy job without its only: key.
Only_DeployUnrestricted(c, j) ==
  IF j = "deploy" THEN Branches
  ELSE IF c = "README" THEN Branches ELSE {"main"}

\* The branches a job is restricted to by its `only:` key; Branches when the
\* job has no `only:` key.
Only(c, j) ==
  IF c = "README"
    THEN (IF j = "deploy" THEN {"main"} ELSE Branches)
    ELSE {"main"}

\* when: manual (part_000's deploy job); every other job is when: on_success.
WhenManual(c, j) == c = "part_000" /\ j = "deploy"

\* before_script followed by script of each job, one entry per command.
Script(c, j) ==
  IF c = "README"
    THEN (IF j = "deploy"
            THEN <<"docker --version", "docker compose version", "docker login",
                   "echo pulling", "docker compose pull",
                   "echo restarting", "docker compose up -d",
                   "echo cleaning", "docker image prune -f">>
            ELSE <<"docker info", "docker login", "docker build", "docker push">>)
    ELSE (IF j = "deploy"
            THEN <<"echo deploying">>
            ELSE <<"docker login", "docker build", "docker push">>)

\* A job is part of a pipeline for branch b when its only: list allows b.
JobInPipeline(c, j, b) == b \in Only(c, j)

JobsOf(c, b) == {j \in Jobs : JobInPipeline(c, j, b)}

Finished == {"success", "failed"}
Started == {"running", "success", "failed"}

\* Every job of the earlier stage has finished.
StageDone(st) == \A j \in Components : st[j] \in Finished \cup {"none"}

\* (mutant) the deploy job released whatever the builds' outcome
\* (when: always).
StageSucceeded_Always(st) == TRUE

\* Every job of the earlier stage has succeeded (when: on_success).
StageSucceeded(st) == \A j \in Components : st[j] \in {"success", "none"}

\* The status a deploy job in `created` moves to once the build_and_push
\* stage is done.
DeployRelease(c, st) ==
  IF ~StageSucceeded(st) THEN "skipped"
  ELSE IF WhenManual(c, "deploy") THEN "manual"
  ELSE "pending"

\* The runner runs the commands of a job in order and stops at the first
\* command that exits non-zero: the index of the next command, 0 when the
\* job is over.
NextPc(c, j, i, ok) == IF ok /\ i < Len(Script(c, j)) THEN i + 1 ELSE 0

\* (mutant) a non-zero exit is ignored and the job goes on.
StatusAfter_IgnoreExit(c, j, i, ok) ==
  IF i < Len(Script(c, j)) THEN "running" ELSE "success"

\* The job's status after command i exited.
StatusAfter(c, j, i, ok) ==
  IF ~ok THEN "failed"
  ELSE IF i < Len(Script(c, j)) THEN "running"
  ELSE "success"

NoImages == [c \in Components |-> 0]

None == [none |-> TRUE]

\* No request is being served.
RIdle ==
  /\ phase = "idle"
  /\ req = None
  /\ fwd = None
  /\ resp = None

\* No pipeline has been created, nothing is published or deployed.
PFresh ==
  /\ branch = [p \in Pipelines |-> "none"]
  /\ status = [p \in Pipelines |-> [j \in Jobs |-> "none"]]
  /\ pc = [p \in Pipelines |-> [j \in Jobs |-> 0]]
  /\ ran = [p \in Pipelines |-> <<>>]
  /\ played = [p \in Pipelines |-> FALSE]
  /\ retries = 0
  /\ registry = NoImages
  /\ host = [images |-> NoImages, containers |-> NoImages, dangling |-> FALSE]

\* A push to branch b creates the next pipeline with the jobs whose only:
\* allows b; the jobs of the first stage are queued, deploy waits.
Push(p, b) ==
  /\ branch[p] = "none"
  /\ \A q \in Pipelines : q < p => branch[q] # "none"
  /\ JobsOf(config, b) # {}
  /\ branch' = [branch EXCEPT ![p] = b]
  /\ status' = [status EXCEPT ![p] =
        [j \in Jobs |-> IF ~JobInPipeline(config, j, b) THEN "none"
                        ELSE IF StageOf(j) = stages[1] THEN "pending"
                        ELSE "created"]]
  /\ UNCHANGED <<rvars, config, pc, ran, played, retries, registry, host>>

\* A runner picks a queued job up.
StartJob(p, j) ==
  /\ status[p][j] = "pending"
  /\ status' = [status EXCEPT ![p][j] = "running"]
  /\ pc' = [pc EXCEPT ![p][j] = 1]
  /\ ran' = IF j = "deploy" THEN [ran EXCEPT ![p] = <<>>] ELSE ran
  /\ UNCHANGED <<rvars, config, branch, played, retries, registry, host>>

\* What a command that exited zero did to the registry.
RegistryAfter(p, j, cmd) ==
  IF cmd = "docker push" THEN [registry EXCEPT ![j] = p] ELSE registry

\* What a command that exited zero did to the target host.
HostAfter(cmd) ==
  IF cmd = "docker compose pull"
    THEN [host EXCEPT !.images = registry,
                      !.dangling = host.dangling \/ host.images # registry]
  ELSE IF cmd = "docker compose up -d"
    THEN [host EXCEPT !.containers = host.images]
  ELSE IF cmd = "docker image prune -f"
    THEN [host EXCEPT !.dangling = FALSE]
  ELSE host

\* The running job p/j runs its next command, which exits zero (ok) or not.
RunStep(p, j, ok) ==
  /\ status[p][j] = "running"
  /\ pc[p][j] # 0
  /\ LET i == pc[p][j]
         cmd == Script(config, j)[i]
     IN /\ ran' = IF j = "deploy"
                   THEN [ran EXCEPT ![p] = Append(@, [cmd |-> cmd, ok |-> ok])]
                   ELSE ran
        /\ pc' = [pc EXCEPT ![p][j] = NextPc(config, j, i, ok)]
        /\ status' = [status EXCEPT ![p][j] = StatusAfter(config, j, i, ok)]
        /\ registry' = IF ok THEN RegistryAfter(p, j, cmd) ELSE registry
        /\ host' = IF ok THEN HostAfter(cmd) ELSE host
  /\ UNCHANGED <<rvars, config, branch, played, retries>>

\* GitLab moves the deploy job on once the build_and_push stage is done.
ProcessPipeline(p) ==
  /\ status[p]["deploy"] = "created"
  /\ StageDone(status[p])
  /\ status' = [status EXCEPT ![p]["deploy"] = DeployRelease(config, status[p])]
  /\ UNCHANGED <<rvars, config, branch, pc, ran, played, retries, registry, host>>

\* An operator presses play on the manual deploy job.
PlayDeploy(p) ==
  /\ status[p]["deploy"] = "manual"
  /\ status' = [status EXCEPT ![p]["deploy"] = "pending"]
  /\ played' = [played EXCEPT ![p] = TRUE]
  /\ UNCHANGED <<rvars, config, branch, pc, ran, retries, registry, host>>

\* An operator re-runs a failed job; a deploy job skipped because of it
\* waits for the stage again.
RetryJob(p, j) ==
  /\ status[p][j] = "failed"
  /\ retries < MaxRetries
  /\ retries' = retries + 1
  /\ status' = [status EXCEPT ![p] =
        [k \in Jobs |-> IF k = j THEN "pending"
                        ELSE IF k = "deploy" /\ status[p][k] = "skipped" THEN "created"
                        ELSE status[p][k]]]
  /\ pc' = [pc EXCEPT ![p][j] = 0]
  /\ ran' = IF j = "deploy" THEN [ran EXCEPT ![p] = <<>>] ELSE ran
  /\ UNCHANGED <<rvars, config, branch, played, registry, host>>

PNext ==
  \/ \E p \in Pipelines, b \in Branches : Push(p, b)
  \/ \E p \in Pipelines, j \in Jobs : StartJob(p, j)
  \/ \E p \in Pipelines, j \in Jobs, ok \in BOOLEAN : RunStep(p, j, ok)
  \/ \E p \in Pipelines : ProcessPipeline(p)
  \/ \E p \in Pipelines : PlayDeploy(p)
  \/ \E p \in Pipelines, j \in Jobs : RetryJob(p, j)

vars == <<pvars, rvars>>

PInit ==
  /\ config \in Configs
  /\ PFresh
  /\ RIdle
  /\ backendUp = TRUE

PipelineSpec == PInit /\ [][PNext]_vars

\* --------------------------------------------------------- pipeline claims

DeployStarted(p) == status[p]["deploy"] \in Started

\* C1: in every pipeline the deploy job is running or done only when both
\* build_and_push jobs have succeeded; while a build job is pending, running
\* or failed the deploy job has run no command.
C1_DeployAfterBothBuilds ==
  \A p \in Pipelines :
    (DeployStarted(p) \/ ran[p] # <<>>) =>
      \A c \in Components : status[p][c] = "success"

\* C1 witness: one pipeline's deploy runs after both builds succeeded while
\* another pipeline's deploy was skipped because its frontend build failed.
C1_Witness ==
  \E p, q \in Pipelines :
    /\ status[p]["deploy"] = "running"
    /\ ran[p] # <<>>
    /\ \A c \in Components : status[p][c] = "success"
    /\ status[q]["frontend"] = "failed"
    /\ status[q]["backend"] = "success"
    /\ status[q]["deploy"] = "skipped"

\* C2: a pipeline for a branch other than main has no deploy job, and its
\* deploy job never runs a command, whatever the builds did.
C2_DeployOnlyFromMain ==
  \A p \in Pipelines :
    branch[p] \notin {"none", "main"} =>
      /\ status[p]["deploy"] = "none"
      /\ ran[p] = <<>>

\* C2 witness: a feature-branch pipeline whose two builds both succeeded.
C2_Witness ==
  \E p \in Pipelines :
    /\ branch[p] = "feature"
    /\ \A c \in Components : status[p][c] = "success"

\* C3 (as claimed): the deploy job is queued, running or done only after an
\* operator played it.
C3_ManualGate ==
  \A p \in Pipelines :
    (status[p]["deploy"] \in {"pending"} \cup Started) => played[p]

\* C4 (as claimed): a pipeline for a branch other than main has no build
\* job, and the images in the registry and on the host were built by
\* pipelines of main.
C4_BuildOnlyOnMain ==
  /\ \A p \in Pipelines :
       branch[p] \notin {"none", "main"} =>
         \A c \in Components : status[p][c] = "none" /\ pc[p][c] = 0
  /\ \A c \in Components :
       /\ registry[c] # 0 => branch[registry[c]] = "main"
       /\ host.images[c] # 0 => branch[host.images[c]] = "main"

DeployOrder ==
  <<"docker login", "docker compose pull", "docker compose up -d",
    "docker image prune -f">>

IsPrefix(s, t) == Len(s) <= Len(t) /\ \A i \in 1..Len(s) : s[i] = t[i]

\* The four rollout commands among those a deploy job ran, in the order run.
RolloutRan(p) ==
  LET r == ran[p]
      IsRollout(e) == \E k \in 1..Len(DeployOrder) : DeployOrder[k] = e.cmd
      sel == SelectSeq(r, IsRollout)
  IN [i \in 1..Len(sel) |-> sel[i].cmd]

C8_State ==
  \A p \in Pipelines :
    LET r == ran[p] IN
    /\ IsPrefix(RolloutRan(p), DeployOrder)
    /\ \A i \in 1..Len(r) :
         ~r[i].ok => i = Len(r) /\ status[p]["deploy"] = "failed"
    /\ (config = "README" /\ status[p]["deploy"] = "success") =>
         RolloutRan(p) = DeployOrder

C8_Step ==
  \A p \in Pipelines :
    /\ status[p]["deploy"] = "failed" =>
         \/ status'[p]["deploy"] = "failed" /\ ran'[p] = ran[p]
         \/ status'[p]["deploy"] = "pending" /\ retries' = retries + 1
    /\ (status[p]["deploy"] = "running" /\ status'[p]["deploy"] = "failed") =>
         host' = host

C9_OneDeployAtATime ==
  Cardinality({p \in Pipelines : status[p]["deploy"] = "running"}) <= 1
\* ========================================================= EDGE ROUTER ==

\* A request path is the normalized URI nginx matches locations against
\* ($uri): it starts with "/" and has no two adjacent slashes.  Paths are
\* sequences over Chars; "index.html" is one atomic name.
Chars == {"/", "a", "p", "i", "index.html"}

RECURSIVE SeqsUpTo(_)
SeqsUpTo(n) ==
  IF n = 0 THEN {<<>>}
  ELSE LET shorter == SeqsUpTo(n - 1)
       IN shorter \cup {Append(s, c) : s \in {t \in shorter : Len(t) = n - 1}, c \in Chars}

Normalized(p) ==
  /\ Len(p) >= 1
  /\ p[1] = "/"
  /\ \A i \in 1..(Len(p) - 1) : ~(p[i] = "/" /\ p[i + 1] = "/")

Paths == {p \in SeqsUpTo(MaxPathLen) : Normalized(p)}

IndexDoc == <<"/", "index.html">>

\* The tree under root /usr/share/nginx/html (the frontend build): regular
\* files, and directories (written without a trailing slash).  /p has an
\* index.html, /i has none.
Files ==
  {IndexDoc, <<"/", "a">>, <<"/", "a", "p", "i">>,
   <<"/", "p", "/", "index.html">>, <<"/", "i", "/", "a">>}
Dirs == {<<"/", "p">>, <<"/", "i">>}

Methods == {"GET", "POST"}
Bodies == {<<>>, <<"payload">>}
\* A client: its address and the Host header it sends (name and port).
Clients ==
  {[ip |-> "10.0.0.1", host |-> <<"localhost", "80">>],
   [ip |-> "10.0.0.2", host |-> <<"localhost", "8080">>]}

Requests ==
  [method : Methods, path : Paths, body : Bodies, client : Clients,
   via : {"router", "direct"}]

StartsWith(p, pre) ==
  Len(p) >= Len(pre) /\ \A i \in 1..Len(pre) : p[i] = pre[i]

EndsWithSlash(p) == p[Len(p)] = "/"

\* The server block's prefix locations, in the order of the configuration.
Locations == << <<"/">>, <<"/", "a", "p", "i">> >>
ApiPrefix == Locations[2]

\* (mutant) the first location in configuration order that matches.
SelectLocation_FirstListed(p) ==
  Locations[CHOOSE k \in 1..Len(Locations) :
              /\ StartsWith(p, Locations[k])
              /\ \A m \in 1..(k - 1) : ~StartsWith(p, Locations[m])]

\* nginx chooses, among the prefix locations matching the path, the one
\* with the longest prefix, whatever their order in the configuration.
SelectLocation(p) ==
  Locations[CHOOSE k \in 1..Len(Locations) :
              /\ StartsWith(p, Locations[k])
              /\ \A m \in 1..Len(Locations) :
                   StartsWith(p, Locations[m]) => Len(Locations[m]) <= Len(Locations[k])]

\* $host: the host name of the request, without the port.
HostVar(r) == <<r.client.host[1]>>

\* (mutant) proxy_pass with a URI part ("http://backend:3000/"): the
\* matched prefix is replaced by "/".
ProxyUri_ReplacePrefix(p) ==
  LET rest == SubSeq(p, Len(ApiPrefix) + 1, Len(p))
  IN IF rest # <<>> /\ rest[1] = "/" THEN rest ELSE <<"/">> \o rest

\* proxy_pass http://backend:3000 has no URI part: the request URI is
\* passed to the upstream as the client sent it.
ProxyUri(p) == p

\* The request location /api passes to the upstream.
ProxyRequest(r) ==
  [method |-> r.method, path |-> ProxyUri(r.path), body |-> r.body,
   host |-> HostVar(r), xRealIp |-> r.client.ip, upstream |-> "backend:3000"]

\* The request the backend sees when a client calls port 3000 itself.
DirectRequest(r) ==
  [method |-> r.method, path |-> r.path, body |-> r.body,
   host |-> r.client.host, xRealIp |-> "", upstream |-> "backend:3000"]

Response(st, b, by) == [status |-> st, body |-> b, from |-> by]

\* The static module serves a regular file: GET only (POST is not allowed).
ServeFile(m, f) ==
  IF m = "GET" THEN Response(200, f, "static") ELSE Response(405, <<>>, "static")

StripSlash(p) == IF Len(p) > 1 /\ EndsWithSlash(p) THEN SubSeq(p, 1, Len(p) - 1) ELSE p

IsDir(p) == p = <<"/">> \/ StripSlash(p) \in Dirs

\* (mutant) try_files $uri $uri/ =404: no fallback to the index document.
TryFiles_NoFallback(m, p) ==
  IF p \in Files THEN ServeFile(m, p)
  ELSE IF IsDir(p) THEN
    (IF ~EndsWithSlash(p) THEN Response(301, p \o <<"/">>, "static")
     ELSE IF (p \o <<"index.html">>) \in Files
       THEN ServeFile(m, p \o <<"index.html">>)
     ELSE Response(403, <<>>, "static"))
  ELSE Response(404, <<>>, "static")

\* location /: try_files $uri $uri/ /index.html under the root.  A regular
\* file is served; a directory is redirected to its slash form, or answered
\* with its index.html, or forbidden when it has none; anything else is
\* redirected internally to /index.html, which location / serves.
TryFiles(m, p) ==
  IF p \in Files THEN ServeFile(m, p)
  ELSE IF IsDir(p) THEN
    (IF ~EndsWithSlash(p) THEN Response(301, p \o <<"/">>, "static")
     ELSE IF (p \o <<"index.html">>) \in Files
       THEN ServeFile(m, p \o <<"index.html">>)
     ELSE Response(403, <<>>, "static"))
  ELSE IF IndexDoc \in Files THEN ServeFile(m, IndexDoc)
  ELSE Response(500, <<>>, "static")

\* (mutant) upstream errors answered with the index document
\* (error_page 502 504 =200 /index.html).
GatewayStatus_ErrorPage(err) == 200

\* What nginx answers when the upstream cannot be used: 502 when the
\* connection is refused or reset, 504 when it times out.
GatewayStatus(err) == IF err = "timeout" THEN 504 ELSE 502

UpstreamErrors == {"refused", "timeout"}

\* ============================================================= BACKEND ==

\* res.send("Backend is running from the server demo 2 ")
FixedBody == <<"Backend is running from the server demo 2 ">>

\* app.get("/", ...): the only route.
HandlerMatches(r) == r.method = "GET" /\ r.path = <<"/">>

\* Express answers with the handler's body, or 404 when no route matches.
Express(r) ==
  IF HandlerMatches(r) THEN Response(200, FixedBody, "handler")
  ELSE Response(404, <<>>, "express")

\* ------------------------------------------------------- request actions

\* A client sends a request to the router (port 80) or, when the backend
\* is up, to the backend's own port 3000.
Send ==
  /\ phase = "idle"
  /\ \E r \in Requests :
       /\ req' = r
       /\ IF r.via = "router"
            THEN phase' = "received" /\ fwd' = None
            ELSE backendUp /\ phase' = "atBackend" /\ fwd' = DirectRequest(r)
  /\ UNCHANGED <<pvars, resp, backendUp>>

\* The router serves the request from location /.
RouteStatic ==
  /\ phase = "received"
  /\ SelectLocation(req.path) # ApiPrefix
  /\ resp' = TryFiles(req.method, req.path)
  /\ phase' = "responded"
  /\ UNCHANGED <<pvars, req, fwd, backendUp>>

\* The router starts proxying the request from location /api.
RouteProxy ==
  /\ phase = "received"
  /\ SelectLocation(req.path) = ApiPrefix
  /\ fwd' = ProxyRequest(req)
  /\ phase' = "connecting"
  /\ UNCHANGED <<pvars, req, resp, backendUp>>

\* The connection to the upstream is established.
ConnectOk ==
  /\ phase = "connecting"
  /\ backendUp
  /\ phase' = "atBackend"
  /\ UNCHANGED <<pvars, req, fwd, resp, backendUp>>

\* The connection to the upstream is refused or times out.
ConnectFail(err) ==
  /\ phase = "connecting"
  /\ ~backendUp
  /\ resp' = Response(GatewayStatus(err), <<>>, "gateway")
  /\ phase' = "responded"
  /\ UNCHANGED <<pvars, req, fwd, backendUp>>

\* The backend answers the request it received.
BackendHandle ==
  /\ phase = "atBackend"
  /\ backendUp
  /\ resp' = Express(fwd)
  /\ phase' = "responded"
  /\ UNCHANGED <<pvars, req, fwd, backendUp>>

\* The backend went away after the router connected to it.
UpstreamLost(err) ==
  /\ phase = "atBackend"
  /\ ~backendUp
  /\ req.via = "router"
  /\ resp' = Response(GatewayStatus(err), <<>>, "gateway")
  /\ phase' = "responded"
  /\ UNCHANGED <<pvars, req, fwd, backendUp>>

\* The backend went away under a client connected to port 3000: the
\* client gets no response.
DirectLost ==
  /\ phase = "atBackend"
  /\ ~backendUp
  /\ req.via = "direct"
  /\ resp' = Response(0, <<>>, "nobody")
  /\ phase' = "responded"
  /\ UNCHANGED <<pvars, req, fwd, backendUp>>

\* The client has its response.
Done ==
  /\ phase = "responded"
  /\ phase' = "idle"
  /\ req' = None
  /\ fwd' = None
  /\ resp' = None
  /\ UNCHANGED <<pvars, backendUp>>

BackendStop ==
  /\ backendUp
  /\ backendUp' = FALSE
  /\ UNCHANGED <<pvars, phase, req, fwd, resp>>

BackendStart ==
  /\ ~backendUp
  /\ backendUp' = TRUE
  /\ UNCHANGED <<pvars, phase, req, fwd, resp>>

RNext ==
  \/ Send
  \/ RouteStatic
  \/ RouteProxy
  \/ ConnectOk
  \/ \E err \in UpstreamErrors : ConnectFail(err)
  \/ BackendHandle
  \/ \E err \in UpstreamErrors : UpstreamLost(err)
  \/ DirectLost
  \/ Done
  \/ BackendStop
  \/ BackendStart

RInit ==
  /\ RIdle
  /\ backendUp \in BOOLEAN
  /\ config = "README"
  /\ PFresh

RouterSpec == RInit /\ [][RNext]_vars

\* nginx acts on the outcome of a connection attempt (or on its timer), and
\* the backend answers what it received; the router never leaves a proxied
\* request waiting while one of these can happen.
RouterFairSpec ==
  /\ RouterSpec
  /\ WF_vars(ConnectOk \/ \E err \in UpstreamErrors : ConnectFail(err))
  /\ WF_vars(BackendHandle \/ (\E err \in UpstreamErrors : UpstreamLost(err)) \/ DirectLost)
\* ----------------------------------------------------------- router claims

ViaRouter == phase # "idle" /\ req.via = "router"
Routed == ViaRouter /\ phase # "received"
ApiRequest == ViaRouter /\ StartsWith(req.path, ApiPrefix)
StaticRequest == ViaRouter /\ ~StartsWith(req.path, ApiPrefix)

\* C5: a request whose path starts with /api is never answered from the
\* static files; once routed, it has been passed to backend:3000 with its
\* method and body unchanged, Host set to the request's host name and
\* X-Real-IP set to the client's address.
C5_ApiGoesToBackend ==
  (ApiRequest /\ Routed) =>
    /\ fwd # None
    /\ fwd.upstream = "backend:3000"
    /\ fwd.method = req.method
    /\ fwd.body = req.body
    /\ fwd.host = <<req.client.host[1]>>
    /\ fwd.xRealIp = req.client.ip
    /\ phase = "responded" => resp.from # "static"

\* C5 witness: a POST with a body to /api, a path that also names a regular
\* file of the static tree, from the client of port 8080, answered by the
\* backend.
C5_Witness ==
  /\ ApiRequest
  /\ phase = "responded"
  /\ req.path = ApiPrefix
  /\ req.path \in Files
  /\ req.method = "POST"
  /\ req.body = <<"payload">>
  /\ req.client.host = <<"localhost", "8080">>
  /\ resp.from = "express"

\* C6 (as claimed): a request whose path does not start with /api never
\* reaches the backend and is answered 200 with the file matching the path
\* when there is one and with /index.html otherwise.
C6_StaticOrIndex ==
  (StaticRequest /\ phase = "responded") =>
    /\ fwd = None
    /\ resp.status = 200
    /\ resp.body = (IF req.path \in Files THEN req.path ELSE IndexDoc)

\* C6 (amended): a request whose path does not start with /api never
\* reaches the backend; a GET is answered 200 with the file matching the
\* path when there is one, and 200 with /index.html when the path matches
\* neither a file nor a directory.
C6_StaticOrIndexForGetNonDirectory ==
  StaticRequest =>
    /\ fwd = None
    /\ phase \in {"received", "responded"}
    /\ (phase = "responded" /\ req.method = "GET" /\ ~IsDir(req.path)) =>
         /\ resp.status = 200
         /\ resp.from = "static"
         /\ resp.body = (IF req.path \in Files THEN req.path ELSE IndexDoc)

\* C6 witness: GET of a path that matches no file and no directory,
\* answered with the index document.
C6_Witness ==
  /\ StaticRequest
  /\ phase = "responded"
  /\ req.method = "GET"
  /\ req.path = <<"/", "p", "i">>
  /\ req.path \notin Files
  /\ resp = Response(200, IndexDoc, "static")

\* C7: a proxied request waiting for the upstream is always answered; when
\* the attempt ends while the backend is unreachable the answer is 502 or
\* 504, never a response without a status.
C7_Answered == (ApiRequest /\ phase \in {"connecting", "atBackend"}) ~> (phase = "responded")

C7_GatewayStep ==
  (ApiRequest /\ phase \in {"connecting", "atBackend"} /\ ~backendUp /\ phase' # phase) =>
    /\ phase' = "responded"
    /\ resp'.status \in {502, 504}

C7_GatewayErrorNotHang == C7_Answered /\ [][C7_GatewayStep]_vars

\* C7 witness: GET /api/a answered 504 while the backend is down.
C7_Witness ==
  /\ ApiRequest
  /\ phase = "responded"
  /\ ~backendUp
  /\ req.path = <<"/", "a", "p", "i", "/", "a">>
  /\ resp = Response(504, <<>>, "gateway")

\* C10: a request routed through /api reaches the backend with its path
\* unchanged, is never answered by the GET / handler and never gets the
\* fixed body; the fixed body only answers a client that called port 3000.
C10_ApiNeverHitsRootHandler ==
  /\ (ApiRequest /\ Routed) => fwd.path = req.path /\ ~HandlerMatches(fwd)
  /\ (ApiRequest /\ phase = "responded") =>
       resp.from # "handler" /\ resp.body # FixedBody
  /\ (phase = "responded" /\ (resp.body = FixedBody \/ resp.from = "handler")) =>
       req.via = "direct"

\* C10 witness: GET /api through the router, backend up, answered 404 by
\* Express.
C10_Witness ==
  /\ ApiRequest
  /\ phase = "responded"
  /\ backendUp
  /\ req.method = "GET"
  /\ req.path = ApiPrefix
  /\ resp = Response(404, <<>>, "express")
====
